---- MODULE Spec2Model ----
(***************************************************************************)
(* Model of sis_snowretail_rag_mvp.py: a Streamlit application with two    *)
(* chat surfaces kept in st.session_state.                                 *)
(*   - render_simple_chatbot_page : plain chat, the prompt is the running  *)
(*     history text followed by an "AI: " cue;                             *)
(*   - render_rag_chatbot_page : facet listing, filter construction,       *)
(*     Cortex Search, document lookup, context assembly, grounded          *)
(*     generation, with a fallback generation in the inner except branch.  *)
(*                                                                         *)
(* A script run is split at its backend calls (search, SQL lookup,         *)
(* CompleteText): pc names the call that is in flight, and one action      *)
(* models the code from the return (or raise) of a call up to the next     *)
(* call or the end of the run.                                             *)
(*                                                                         *)
(* Text is a sequence of tokens: an f-string becomes the sequence of its   *)
(* literal pieces and interpolated values, += becomes \o.  The Japanese    *)
(* literals of the source are written as ASCII tokens.                     *)
(***************************************************************************)
EXTENDS Integers, Sequences, FiniteSets, TLC

(***************************************************************************)
(* Bounds of the model.                                                    *)
(***************************************************************************)
\* turns the two stores hold together: a submission is accepted while its
\* two turns still fit
MaxTurns == 4

\* "limit": 3 in search_args
SearchLimit == 3

\* Python's None where the other values are records (search_filter, search_args)
None == [op |-> "None"]
\* a string-valued local the run has not assigned
NoText == "None"
\* a list- or dict-valued local the run has not assigned
Unset == <<>>
\* the run was not a click on a clear button
NoClear == [page |-> "None", turns |-> <<>>]
\* no grounded generation call has been kept
NoSnap == [taken |-> FALSE]

\* what the user can type into st.chat_input
Questions == {"q1", "q2"}
\* what CompleteText can return
Responses == {"r1"}

(***************************************************************************)
(* Literal pieces of the f-strings.                                        *)
(***************************************************************************)
UserTag == "User: "
AiTag == "AI: "
NL == "\n"
\* "参考文書:\n"
ContextHeader == "reference documents:\n"
\* "タイトル: ", "種類: ", "部署: ", "内容: ", "---"
TitleTag == "title: "
TypeTag == "type: "
DeptTag == "department: "
ChunkTag == "content: "
BlockEnd == "---"
\* the three instruction lines of prompt_template, then "文脈:" and "質問: "
GroundedInstruction == "You are the internal assistant; answer from the context; say so if unknown."
ContextTag == "context:"
QuestionTag == "question: "
\* the instruction of the fallback prompt
FallbackInstruction == "Answer in Japanese; internal documents are not accessible, answer from general knowledge."

(***************************************************************************)
(* Notices rendered by a run (st.warning / st.info / st.error).            *)
(***************************************************************************)
FacetWarning == "warning: facet listing failed, filters unavailable"
FilterInfo == "info: searching with filter"
SearchError == "error: cannot access Cortex Search Service"
FallbackInfo == "info: answer generated from general knowledge"
GenerationError == "error: failed to generate a response"

(***************************************************************************)
(* Helpers on sequences.                                                   *)
(***************************************************************************)
Range(s) == {s[i] : i \in 1..Len(s)}

Last(s) == s[Len(s)]

\* sequences without repetition over the elements of options, any order
Selections(options) ==
    {s \in UNION {[1..n -> Range(options)] : n \in 0..Len(options)} :
        \A i, j \in 1..Len(s) : i # j => s[i] # s[j]}

VARIABLES
    \* st.session_state of the plain surface
    messages, chat_history,
    \* st.session_state of the RAG surface
    rag_messages, rag_chat_history,
    \* the tables and the search service behind the application
    backend,
    \* selected_function of the run in progress (or of the last run)
    page,
    \* the backend call in flight, "Idle" between runs
    pc,
    \* locals of the run in progress; they keep their last value until the
    \* next run starts
    prompt, department_list, document_type_list,
    selected_departments, selected_document_types,
    search_args, search_results, original_docs, relevant_docs, context,
    prompt_template, full_prompt,
    \* what the run rendered with st.warning / st.info / st.error
    notices,
    \* history variables: the backend calls the run has completed, in order;
    \* the turns the run discarded when it was a click on the clear button;
    \* one earlier grounded generation call kept for comparison
    calls, cleared, snap

session == <<messages, chat_history, rag_messages, rag_chat_history>>
locals == <<prompt, department_list, document_type_list,
            selected_departments, selected_document_types,
            search_args, search_results, original_docs, relevant_docs,
            context, prompt_template, full_prompt>>
vars == <<messages, chat_history, rag_messages, rag_chat_history, backend,
          page, pc, prompt, department_list, document_type_list,
          selected_departments, selected_document_types,
          search_args, search_results, original_docs, relevant_docs,
          context, prompt_template, full_prompt, notices, calls, cleared, snap>>

(***************************************************************************)
(* The data behind the application.                                        *)
(***************************************************************************)
\* rows of snow_retail_documents
Doc1 ==
    [document_id |-> "1", title |-> "title1", content |-> "full1",
     document_type |-> "manual", department |-> "hr"]

Doc2 ==
    [document_id |-> "2", title |-> "title2", content |-> "full2",
     document_type |-> "faq", department |-> "sales"]

Hit(id, chunk) == [document_id |-> id, chunked_content |-> chunk]

\* result lists of the search service in a session: no hit, one document
\* hit twice around another one, an identifier the table does not hold
SessionResults ==
    { <<>>,
      <<Hit("1", "a"), Hit("2", "b"), Hit("1", "c")>>,
      <<Hit("9", "x")>>,
      <<Hit("9", "x"), Hit("1", "a")>> }

SessionBackend ==
    [departments |-> <<"hr", "sales">>, document_types |-> <<"manual">>,
     documents |-> {Doc1, Doc2}, results |-> SessionResults]

(***************************************************************************)
(* Init: the session state after the first run of either page (lines       *)
(* 75-77, 179-181), no submission made yet.                                *)
(***************************************************************************)
NoRun ==
    /\ prompt = NoText
    /\ department_list = <<>>
    /\ document_type_list = <<>>
    /\ selected_departments = <<>>
    /\ selected_document_types = <<>>
    /\ search_args = None
    /\ search_results = Unset
    /\ original_docs = Unset
    /\ relevant_docs = Unset
    /\ context = Unset
    /\ prompt_template = Unset
    /\ full_prompt = Unset
    /\ notices = {}
    /\ calls = <<>>
    /\ cleared = NoClear
    /\ snap = NoSnap

EmptySession ==
    /\ messages = <<>>
    /\ chat_history = <<>>
    /\ rag_messages = <<>>
    /\ rag_chat_history = <<>>
    /\ page = "simple"
    /\ pc = "Idle"

Init ==
    /\ EmptySession
    /\ NoRun
    /\ backend = SessionBackend

(***************************************************************************)
(* Plain chat surface, render_simple_chatbot_page.                         *)
(***************************************************************************)
UserTurn(p) == [role |-> "user", content |-> p]

AssistantTurn(r) == [role |-> "assistant", content |-> r]

\* f"User: {prompt}\n"
UserLine(p) == <<UserTag, p, NL>>

\* f"AI: {response}\n"
AiLine(r) == <<AiTag, r, NL>>

\* a prompt that is sent without the cue
FullPromptNoCue(history) == history

\* full_prompt = st.session_state.chat_history + "AI: "
FullPrompt(history) == history \o <<AiTag>>

CompleteCall(arg, ok, result) ==
    [fn |-> "complete", arg |-> arg, ok |-> ok, result |-> result]

\* the locals of the RAG page that a run of the plain page never assigns
NoRagLocals ==
    /\ department_list' = <<>>
    /\ document_type_list' = <<>>
    /\ selected_departments' = <<>>
    /\ selected_document_types' = <<>>
    /\ search_args' = None
    /\ search_results' = Unset
    /\ original_docs' = Unset
    /\ relevant_docs' = Unset
    /\ context' = Unset
    /\ prompt_template' = Unset

\* lines 91-101: the user turn is appended, the prompt is built from the
\* running history and CompleteText is called
SimpleSubmit(p) ==
    /\ pc = "Idle"
    /\ Len(messages) + Len(rag_messages) + 2 <= MaxTurns
    /\ page' = "simple"
    /\ prompt' = p
    /\ messages' = Append(messages, UserTurn(p))
    /\ chat_history' = chat_history \o UserLine(p)
    /\ full_prompt' = FullPrompt(chat_history')
    /\ NoRagLocals
    /\ notices' = {}
    /\ calls' = <<>>
    /\ cleared' = NoClear
    /\ pc' = "Generating"
    /\ UNCHANGED <<rag_messages, rag_chat_history, backend, snap>>

\* lines 104-107: CompleteText returned
SimpleGenerateOk(r) ==
    /\ pc = "Generating"
    /\ page = "simple"
    /\ messages' = Append(messages, AssistantTurn(r))
    /\ chat_history' = chat_history \o AiLine(r)
    /\ calls' = Append(calls, CompleteCall(full_prompt, TRUE, r))
    /\ pc' = "Idle"
    /\ UNCHANGED <<rag_messages, rag_chat_history, backend, page, locals,
                   notices, cleared, snap>>

\* a failure that takes the user turn of the submission back out
SimpleGenerateFailRollsBack ==
    /\ pc = "Generating"
    /\ page = "simple"
    /\ messages' = SubSeq(messages, 1, Len(messages) - 1)
    /\ chat_history' = SubSeq(chat_history, 1, Len(chat_history) - 3)
    /\ calls' = Append(calls, CompleteCall(full_prompt, FALSE, NoText))
    /\ notices' = notices \cup {GenerationError}
    /\ pc' = "Idle"
    /\ UNCHANGED <<rag_messages, rag_chat_history, backend, page, locals,
                   cleared, snap>>

\* lines 109-110: CompleteText raised
SimpleGenerateFail ==
    /\ pc = "Generating"
    /\ page = "simple"
    /\ calls' = Append(calls, CompleteCall(full_prompt, FALSE, NoText))
    /\ notices' = notices \cup {GenerationError}
    /\ pc' = "Idle"
    /\ UNCHANGED <<session, backend, page, locals, cleared, snap>>

\* a clear that resets the turns and keeps the running history text
SimpleClearKeepsHistory ==
    /\ pc = "Idle"
    /\ page' = "simple"
    /\ cleared' = [page |-> "simple", turns |-> messages]
    /\ messages' = <<>>
    /\ prompt' = NoText
    /\ full_prompt' = Unset
    /\ NoRagLocals
    /\ notices' = {}
    /\ calls' = <<>>
    /\ UNCHANGED <<chat_history, rag_messages, rag_chat_history, backend,
                   pc, snap>>

\* lines 80-83: the clear button of the plain page
SimpleClear ==
    /\ pc = "Idle"
    /\ page' = "simple"
    /\ cleared' = [page |-> "simple", turns |-> messages]
    /\ messages' = <<>>
    /\ chat_history' = <<>>
    /\ prompt' = NoText
    /\ full_prompt' = Unset
    /\ NoRagLocals
    /\ notices' = {}
    /\ calls' = <<>>
    /\ UNCHANGED <<rag_messages, rag_chat_history, backend, pc, snap>>


(***************************************************************************)
(* RAG surface, render_rag_chatbot_page: filter construction.              *)
(***************************************************************************)
\* {"@eq": {field: value}}
EqPred(field, value) == [op |-> "@eq", field |-> field, value |-> value]

\* {"@or": children}
OrPred(children) == [op |-> "@or", children |-> children]

\* {"@and": children}
AndPred(children) == [op |-> "@and", children |-> children]

\* lines 224-232 and 235-243: what one facet adds to filter_conditions
FacetConditions(field, selected) ==
    LET conditions == [i \in 1..Len(selected) |-> EqPred(field, selected[i])]
    IN  IF selected = <<>> THEN <<>>
        ELSE IF Len(conditions) = 1 THEN <<conditions[1]>>
        ELSE <<OrPred(conditions)>>

\* a filter that is always wrapped in @and
SearchFilterAlwaysAnd(departments, document_types) ==
    LET filter_conditions ==
            FacetConditions("department", departments)
            \o FacetConditions("document_type", document_types)
    IN  IF filter_conditions = <<>> THEN None
        ELSE AndPred(filter_conditions)

\* lines 221-251
SearchFilter(departments, document_types) ==
    LET filter_conditions ==
            FacetConditions("department", departments)
            \o FacetConditions("document_type", document_types)
    IN  IF filter_conditions = <<>> THEN None
        ELSE IF Len(filter_conditions) = 1 THEN filter_conditions[1]
        ELSE AndPred(filter_conditions)

SearchColumns ==
    <<"title", "chunked_content", "document_type", "department", "document_id">>

\* lines 263-271: the "filter" key exists only when there is a filter
SearchArgs(query, search_filter) ==
    IF search_filter # None
    THEN [query |-> query, columns |-> SearchColumns, limit |-> SearchLimit,
          filter |-> search_filter]
    ELSE [query |-> query, columns |-> SearchColumns, limit |-> SearchLimit]

(***************************************************************************)
(* RAG surface: document lookup and context assembly.                      *)
(***************************************************************************)
\* lines 276-279
UniqueDocumentIds(results) == {results[i].document_id : i \in 1..Len(results)}

\* lines 282-298: the rows of the table whose identifier is asked for,
\* keyed by identifier
OriginalDocs(documents, ids) ==
    LET rows == {d \in documents : d.document_id \in ids}
    IN  [id \in {d.document_id : d \in rows} |->
            LET row == CHOOSE d \in rows : d.document_id = id
            IN  [title |-> row.title, content |-> row.content,
                 document_type |-> row.document_type,
                 department |-> row.department]]

\* lines 311-317
RelevantDoc(doc, result) ==
    [title |-> doc.title, content |-> doc.content,
     chunked_content |-> result.chunked_content,
     document_type |-> doc.document_type, department |-> doc.department]

\* a loop that does not record the identifier
MarkSeenNot(seen, doc_id) == seen

\* line 318: seen_doc_ids.add(doc_id)
MarkSeen(seen, doc_id) == seen \cup {doc_id}

\* a loop that emits an entry with blank document fields for an identifier
\* the lookup did not return
RECURSIVE RelevantDocsFromKeepMissing(_, _, _, _)
RelevantDocsFromKeepMissing(results, docs, i, seen_doc_ids) ==
    IF i > Len(results) THEN <<>>
    ELSE LET doc_id == results[i].document_id
             blank == [title |-> "", content |-> "", document_type |-> "",
                       department |-> ""]
         IN  IF doc_id \in seen_doc_ids
             THEN RelevantDocsFromKeepMissing(results, docs, i + 1,
                                              seen_doc_ids)
             ELSE <<RelevantDoc(IF doc_id \in DOMAIN docs
                                THEN docs[doc_id] ELSE blank, results[i])>>
                  \o RelevantDocsFromKeepMissing(results, docs, i + 1,
                                                 seen_doc_ids \cup {doc_id})

\* lines 304-318: the loop over search_results.results from position i on
RECURSIVE RelevantDocsFrom(_, _, _, _)
RelevantDocsFrom(results, docs, i, seen_doc_ids) ==
    IF i > Len(results) THEN <<>>
    ELSE LET doc_id == results[i].document_id
         IN  IF doc_id \in seen_doc_ids
             THEN RelevantDocsFrom(results, docs, i + 1, seen_doc_ids)
             ELSE IF doc_id \in DOMAIN docs
             THEN <<RelevantDoc(docs[doc_id], results[i])>>
                  \o RelevantDocsFrom(results, docs, i + 1,
                                      MarkSeen(seen_doc_ids, doc_id))
             ELSE RelevantDocsFrom(results, docs, i + 1, seen_doc_ids)

\* lines 301-318
RelevantDocs(results, docs) == RelevantDocsFrom(results, docs, 1, {})

\* a block that carries the full content of the document
ContextBlockFullContent(doc) ==
    <<TitleTag, doc.title, TypeTag, doc.document_type,
      DeptTag, doc.department, ChunkTag, doc.content, BlockEnd>>

\* lines 323-329: the block of one document
ContextBlock(doc) ==
    <<TitleTag, doc.title, TypeTag, doc.document_type,
      DeptTag, doc.department, ChunkTag, doc.chunked_content, BlockEnd>>

RECURSIVE ContextBlocks(_)
ContextBlocks(docs) ==
    IF docs = <<>> THEN <<>>
    ELSE ContextBlock(Head(docs)) \o ContextBlocks(Tail(docs))

\* lines 321-329
ContextText(docs) == <<ContextHeader>> \o ContextBlocks(docs)

\* a grounded prompt that carries the running history of the RAG store
PromptTemplateWithHistory(ctx, question) ==
    <<GroundedInstruction, ContextTag>> \o ctx \o rag_chat_history
    \o <<QuestionTag, question>>

\* lines 332-341
PromptTemplate(ctx, question) ==
    <<GroundedInstruction, ContextTag>> \o ctx \o <<QuestionTag, question>>

\* line 370
FallbackPrompt(question) == <<FallbackInstruction, QuestionTag, question>>

\* lines 358-362
GroundedTurn(r, docs) ==
    [role |-> "assistant", content |-> r, relevant_docs |-> docs]

\* a fallback turn stored like a grounded one
FallbackTurnWithDocs(r) ==
    [role |-> "assistant", content |-> r, relevant_docs |-> <<>>]

\* lines 377-380
FallbackTurn(r) == [role |-> "assistant", content |-> r]

(***************************************************************************)
(* RAG surface: the steps of a run.                                        *)
(***************************************************************************)
FacetsCall(ok) == [fn |-> "facets", ok |-> ok]

SearchCall(arg, ok) == [fn |-> "search", arg |-> arg, ok |-> ok]

LookupCall(arg, ok) == [fn |-> "lookup", arg |-> arg, ok |-> ok]

\* the locals of the plain page, never assigned by a run of the RAG page
NoSimpleLocals == full_prompt' = Unset

\* the locals a RAG run has not assigned before its search call returns
NoSearchYet ==
    /\ search_results' = Unset
    /\ original_docs' = Unset
    /\ relevant_docs' = Unset
    /\ context' = Unset
    /\ prompt_template' = Unset

\* option lists that keep the listed values when a listing query raised
FacetOptionsStale(ok, values) == values

\* lines 143-158: the option lists of the two multiselects
FacetOptions(ok, values) == IF ok THEN values ELSE <<>>

\* lines 143-176, 204-273: the facets are listed (facet_ok: both queries
\* returned), the widgets return the selection, the user turn is appended,
\* the filter and the search arguments are built and the search is called.
\* A multiselect returns values of its current options only.
RagSubmit(p, facet_ok, departments, document_types) ==
    /\ pc = "Idle"
    /\ Len(messages) + Len(rag_messages) + 2 <= MaxTurns
    /\ page' = "rag"
    /\ department_list' = FacetOptions(facet_ok, backend.departments)
    /\ document_type_list' = FacetOptions(facet_ok, backend.document_types)
    /\ departments \in Selections(department_list')
    /\ document_types \in Selections(document_type_list')
    /\ selected_departments' = departments
    /\ selected_document_types' = document_types
    /\ prompt' = p
    /\ rag_messages' = Append(rag_messages, UserTurn(p))
    /\ rag_chat_history' = rag_chat_history \o UserLine(p)
    /\ search_args' = SearchArgs(p, SearchFilter(departments, document_types))
    /\ NoSearchYet
    /\ NoSimpleLocals
    /\ notices' = (IF facet_ok THEN {} ELSE {FacetWarning})
                  \cup (IF departments # <<>> \/ document_types # <<>>
                        THEN {FilterInfo} ELSE {})
    /\ calls' = <<FacetsCall(facet_ok)>>
    /\ cleared' = NoClear
    /\ pc' = "Searching"
    /\ UNCHANGED <<messages, chat_history, backend, snap>>

\* lines 273-276: search_service.search returned
RagSearchOk(results) ==
    /\ pc = "Searching"
    /\ results \in backend.results
    /\ search_results' = results
    /\ calls' = Append(calls, SearchCall(search_args, TRUE))
    /\ pc' = "Resolving"
    /\ UNCHANGED <<session, backend, page, prompt, department_list,
                   document_type_list, selected_departments,
                   selected_document_types, search_args, original_docs,
                   relevant_docs, context, prompt_template, full_prompt,
                   notices, cleared, snap>>

\* lines 365-370: the inner except branch reports the search service as
\* inaccessible and calls CompleteText with the fallback prompt
EnterFallback ==
    /\ notices' = notices \cup {SearchError}
    /\ pc' = "FallbackGenerating"

\* lines 214-218, 273: the search service raised
RagSearchFail ==
    /\ pc = "Searching"
    /\ calls' = Append(calls, SearchCall(search_args, FALSE))
    /\ EnterFallback
    /\ UNCHANGED <<session, backend, page, locals, cleared, snap>>

\* lines 288-343: the lookup returned its rows; relevant_docs, context and
\* prompt_template are built and CompleteText is called
RagLookupOk ==
    /\ pc = "Resolving"
    /\ original_docs' = OriginalDocs(backend.documents,
                                     UniqueDocumentIds(search_results))
    /\ relevant_docs' = RelevantDocs(search_results, original_docs')
    /\ context' = ContextText(relevant_docs')
    /\ prompt_template' = PromptTemplate(context', prompt)
    /\ calls' = Append(calls,
                       LookupCall(UniqueDocumentIds(search_results), TRUE))
    /\ pc' = "Generating"
    /\ UNCHANGED <<session, backend, page, prompt, department_list,
                   document_type_list, selected_departments,
                   selected_document_types, search_args, search_results,
                   full_prompt, notices, cleared, snap>>

\* line 288: snowflake_session.sql(...).collect() raised
RagLookupFail ==
    /\ pc = "Resolving"
    /\ calls' = Append(calls,
                       LookupCall(UniqueDocumentIds(search_results), FALSE))
    /\ EnterFallback
    /\ UNCHANGED <<session, backend, page, locals, cleared, snap>>

\* lines 343-363: the grounded CompleteText returned
RagGenerateOk(r) ==
    /\ pc = "Generating"
    /\ page = "rag"
    /\ rag_messages' = Append(rag_messages, GroundedTurn(r, relevant_docs))
    /\ rag_chat_history' = rag_chat_history \o AiLine(r)
    /\ calls' = Append(calls, CompleteCall(prompt_template, TRUE, r))
    /\ pc' = "Idle"
    /\ UNCHANGED <<messages, chat_history, backend, page, locals, notices,
                   cleared, snap>>

\* a grounded failure stored as an assistant turn before the fallback
RagGenerateFailStoresError ==
    /\ pc = "Generating"
    /\ page = "rag"
    /\ rag_messages' = Append(rag_messages, FallbackTurn(GenerationError))
    /\ rag_chat_history' = rag_chat_history \o AiLine(GenerationError)
    /\ calls' = Append(calls, CompleteCall(prompt_template, FALSE, NoText))
    /\ EnterFallback
    /\ UNCHANGED <<messages, chat_history, backend, page, locals, cleared,
                   snap>>

\* line 343: the grounded CompleteText raised
RagGenerateFail ==
    /\ pc = "Generating"
    /\ page = "rag"
    /\ calls' = Append(calls, CompleteCall(prompt_template, FALSE, NoText))
    /\ EnterFallback
    /\ UNCHANGED <<session, backend, page, locals, cleared, snap>>

\* a fallback answer stored without its line of running history
RagFallbackOkNoHistory(r) ==
    /\ pc = "FallbackGenerating"
    /\ rag_messages' = Append(rag_messages, FallbackTurn(r))
    /\ calls' = Append(calls, CompleteCall(FallbackPrompt(prompt), TRUE, r))
    /\ notices' = notices \cup {FallbackInfo}
    /\ pc' = "Idle"
    /\ UNCHANGED <<messages, chat_history, rag_chat_history, backend, page,
                   locals, cleared, snap>>

\* lines 370-381: the fallback CompleteText returned
RagFallbackOk(r) ==
    /\ pc = "FallbackGenerating"
    /\ rag_messages' = Append(rag_messages, FallbackTurn(r))
    /\ rag_chat_history' = rag_chat_history \o AiLine(r)
    /\ calls' = Append(calls, CompleteCall(FallbackPrompt(prompt), TRUE, r))
    /\ notices' = notices \cup {FallbackInfo}
    /\ pc' = "Idle"
    /\ UNCHANGED <<messages, chat_history, backend, page, locals, cleared,
                   snap>>

\* a fallback failure that nothing catches: the run never ends
RagFallbackUncaught ==
    /\ pc = "FallbackGenerating"
    /\ calls' = Append(calls,
                       CompleteCall(FallbackPrompt(prompt), FALSE, NoText))
    /\ pc' = "Raised"
    /\ UNCHANGED <<session, backend, page, locals, notices, cleared, snap>>

\* lines 370, 383-385: the fallback CompleteText raised
RagFallbackFail ==
    /\ pc = "FallbackGenerating"
    /\ calls' = Append(calls,
                       CompleteCall(FallbackPrompt(prompt), FALSE, NoText))
    /\ notices' = notices \cup {GenerationError}
    /\ pc' = "Idle"
    /\ UNCHANGED <<session, backend, page, locals, cleared, snap>>

\* a clear of the RAG page that resets the keys of both pages
RagClearAll(facet_ok) ==
    /\ pc = "Idle"
    /\ page' = "rag"
    /\ cleared' = [page |-> "rag", turns |-> rag_messages]
    /\ rag_messages' = <<>>
    /\ rag_chat_history' = <<>>
    /\ messages' = <<>>
    /\ chat_history' = <<>>
    /\ department_list' = FacetOptions(facet_ok, backend.departments)
    /\ document_type_list' = FacetOptions(facet_ok, backend.document_types)
    /\ selected_departments' = <<>>
    /\ selected_document_types' = <<>>
    /\ prompt' = NoText
    /\ search_args' = None
    /\ NoSearchYet
    /\ NoSimpleLocals
    /\ notices' = IF facet_ok THEN {} ELSE {FacetWarning}
    /\ calls' = <<FacetsCall(facet_ok)>>
    /\ UNCHANGED <<backend, pc, snap>>

\* lines 143-158, 184-187: the clear button of the RAG page; the run lists
\* the facets before it reaches the button
RagClear(facet_ok) ==
    /\ pc = "Idle"
    /\ page' = "rag"
    /\ cleared' = [page |-> "rag", turns |-> rag_messages]
    /\ rag_messages' = <<>>
    /\ rag_chat_history' = <<>>
    /\ department_list' = FacetOptions(facet_ok, backend.departments)
    /\ document_type_list' = FacetOptions(facet_ok, backend.document_types)
    /\ selected_departments' = <<>>
    /\ selected_document_types' = <<>>
    /\ prompt' = NoText
    /\ search_args' = None
    /\ NoSearchYet
    /\ NoSimpleLocals
    /\ notices' = IF facet_ok THEN {} ELSE {FacetWarning}
    /\ calls' = <<FacetsCall(facet_ok)>>
    /\ UNCHANGED <<messages, chat_history, backend, pc, snap>>

(***************************************************************************)
(* The session: both pages, one run at a time.                             *)
(***************************************************************************)
SimpleNext ==
    \/ \E p \in Questions : SimpleSubmit(p)
    \/ \E r \in Responses : SimpleGenerateOk(r)
    \/ SimpleGenerateFail
    \/ SimpleClear

RagSubmitAny ==
    \E p \in Questions, facet_ok \in BOOLEAN :
        \E departments \in Selections(backend.departments),
           document_types \in Selections(backend.document_types) :
            RagSubmit(p, facet_ok, departments, document_types)

RagSearchOkAny == \E results \in backend.results : RagSearchOk(results)

\* the return or raise of the backend call in flight on the RAG page
RagReturn ==
    \/ RagSearchOkAny
    \/ RagSearchFail
    \/ RagLookupOk
    \/ RagLookupFail
    \/ \E r \in Responses : RagGenerateOk(r)
    \/ RagGenerateFail
    \/ \E r \in Responses : RagFallbackOk(r)
    \/ RagFallbackFail

RagNext ==
    \/ RagSubmitAny
    \/ RagReturn
    \/ \E facet_ok \in BOOLEAN : RagClear(facet_ok)

Next == SimpleNext \/ RagNext

Spec == Init /\ [][Next]_vars

(***************************************************************************)
(* What a run has done so far, read from its completed backend calls.      *)
(***************************************************************************)
CallsOf(fn) == {i \in 1..Len(calls) : calls[i].fn = fn}

Failed(fn) == \E i \in CallsOf(fn) : ~calls[i].ok

Succeeded(fn) == \E i \in CallsOf(fn) : calls[i].ok

\* CompleteText calls of the run, the one in flight included
GenerationsIssued ==
    Cardinality(CallsOf("complete"))
    + (IF pc \in {"Generating", "FallbackGenerating"} THEN 1 ELSE 0)

IsAssistant(turn) == turn.role = "assistant"

HasDocs(turn) == "relevant_docs" \in DOMAIN turn

(***************************************************************************)
(* C1: on the RAG page the fallback generation is entered only when the    *)
(* search call itself failed, and a run whose search succeeded issues at   *)
(* most one generation call (a lookup or grounded generation failure is    *)
(* surfaced without a second generation).                                  *)
(* The inner except branch of lines 365-370 also catches the lookup and    *)
(* the grounded CompleteText, so the code violates this.                   *)
(***************************************************************************)
C1_FallbackOnlyFromSearchFailed ==
    page = "rag" =>
        /\ pc = "FallbackGenerating" => Failed("search")
        /\ Succeeded("search") => GenerationsIssued <= 1

(***************************************************************************)
(* C2: once a generation call of a submission has failed, the stores do    *)
(* not change for the rest of that submission: no assistant turn is        *)
(* appended and the turns present before the failure stay as they are.     *)
(* The code violates this when the grounded call fails and the fallback    *)
(* call of the same submission succeeds.                                   *)
(***************************************************************************)
C2_FailedGenerationAppendsNothing ==
    [][(\E i \in 1..Len(calls') :
            calls'[i].fn = "complete" /\ ~calls'[i].ok)
       => (messages' = messages /\ rag_messages' = rag_messages)]_vars

(***************************************************************************)
(* The lines of a text: three tokens each, tag, content, newline.          *)
(***************************************************************************)
TextLines(text) ==
    [i \in 1..(Len(text) \div 3) |->
        [tag |-> text[3 * i - 2], content |-> text[3 * i - 1],
         end |-> text[3 * i]]]

\* the text is whole lines followed by one more token
LinesThenCue(text) ==
    /\ Len(text) % 3 = 1
    /\ \A i \in 1..Len(TextLines(text)) :
        /\ TextLines(text)[i].tag \in {UserTag, AiTag}
        /\ TextLines(text)[i].end = NL

TagOf(turn) == IF turn.role = "user" THEN UserTag ELSE AiTag

\* a generation call of the plain page is in flight
SimpleGenerating == page = "simple" /\ pc = "Generating"

(***************************************************************************)
(* C3 as stated: the prompt of every generation call of the plain page is  *)
(* strictly alternating User: / AI: lines, the first a User: line, the     *)
(* last the line of the turn just submitted, then the "AI: " cue.          *)
(* Violated after a failed submission, whose user turn stays in the        *)
(* history without a reply.                                                *)
(***************************************************************************)
C3_PromptStrictlyAlternates ==
    SimpleGenerating =>
        LET lines == TextLines(full_prompt)
        IN  /\ LinesThenCue(full_prompt)
            /\ Last(full_prompt) = AiTag
            /\ Len(lines) >= 1
            /\ lines[1].tag = UserTag
            /\ \A i \in 1..(Len(lines) - 1) : lines[i].tag # lines[i + 1].tag
            /\ Last(lines).tag = UserTag
            /\ Last(lines).content = prompt

(***************************************************************************)
(* C3 amended: the prompt of every generation call of the plain page has   *)
(* one line per stored turn, in order, User: for a user turn and AI: for   *)
(* an assistant turn with the turn's content; the first line is a User:    *)
(* line, the last is the line of the turn just submitted, the "AI: " cue   *)
(* follows, and every AI: line comes right after a User: line.             *)
(***************************************************************************)
C3_PromptRendersHistory ==
    SimpleGenerating =>
        LET lines == TextLines(full_prompt)
        IN  /\ LinesThenCue(full_prompt)
            /\ Last(full_prompt) = AiTag
            /\ Len(lines) = Len(messages)
            /\ \A i \in 1..Len(lines) :
                /\ lines[i].tag = TagOf(messages[i])
                /\ lines[i].content = messages[i].content
            /\ Len(lines) >= 1
            /\ lines[1].tag = UserTag
            /\ \A i \in 2..Len(lines) :
                lines[i].tag = AiTag => lines[i - 1].tag = UserTag
            /\ Last(lines).tag = UserTag
            /\ Last(lines).content = prompt

\* a prompt sent after a failed submission: two User: lines in a row
C3_Witness ==
    /\ SimpleGenerating
    /\ \E i \in 1..(Len(messages) - 1) :
        /\ TextLines(full_prompt)[i].tag = UserTag
        /\ TextLines(full_prompt)[i + 1].tag = UserTag

(***************************************************************************)
(* C4: when the search call fails, CompleteText is called exactly once,    *)
(* with the fallback instruction and the raw question and no context       *)
(* block; when that call returns, exactly one assistant turn follows the   *)
(* user turn of the submission and it has no relevant_docs field. The      *)
(* turn appended when the grounded call returns has a relevant_docs field. *)
(***************************************************************************)
C4_FallbackAfterSearchFailure ==
    page = "rag" =>
        /\ Failed("search") =>
            /\ pc \in {"FallbackGenerating", "Idle"}
            /\ GenerationsIssued = 1
            /\ \A i \in CallsOf("complete") :
                /\ calls[i].arg = <<FallbackInstruction, QuestionTag, prompt>>
                /\ Range(calls[i].arg)
                   \cap {ContextHeader, ContextTag, ChunkTag, BlockEnd} = {}
                /\ calls[i].ok =>
                    /\ Len(rag_messages) >= 2
                    /\ rag_messages[Len(rag_messages) - 1] = UserTurn(prompt)
                    /\ IsAssistant(Last(rag_messages))
                    /\ Last(rag_messages).content = calls[i].result
                    /\ ~HasDocs(Last(rag_messages))
                /\ ~calls[i].ok => Last(rag_messages) = UserTurn(prompt)
        /\ (pc = "Idle" /\ Succeeded("lookup")
            /\ calls[Len(calls)].fn = "complete" /\ calls[Len(calls)].ok
            /\ Cardinality(CallsOf("complete")) = 1) =>
            /\ rag_messages[Len(rag_messages) - 1] = UserTurn(prompt)
            /\ IsAssistant(Last(rag_messages))
            /\ HasDocs(Last(rag_messages))
            /\ Last(rag_messages).relevant_docs = relevant_docs

\* a fallback answer stored after a failed search, in a store that also
\* holds a grounded answer
C4_Witness ==
    /\ page = "rag"
    /\ pc = "Idle"
    /\ Failed("search")
    /\ Succeeded("complete")
    /\ ~HasDocs(Last(rag_messages))
    /\ \E i \in 1..Len(rag_messages) : HasDocs(rag_messages[i])

(***************************************************************************)
(* Context assembly over every result list of at most SearchLimit hits     *)
(* and every content of the documents table: one submission, followed up   *)
(* to the grounded generation call.                                        *)
(***************************************************************************)
AssembleHits ==
    {Hit(id, chunk) : id \in {"1", "2", "9"}, chunk \in {"a", "b", "c"}}

AssembleResults == UNION {[1..n -> AssembleHits] : n \in 0..SearchLimit}

AssembleBackends ==
    {[departments |-> <<>>, document_types |-> <<>>,
      documents |-> table, results |-> AssembleResults] :
        table \in SUBSET {Doc1, Doc2}}

InitAssemble ==
    /\ EmptySession
    /\ NoRun
    /\ backend \in AssembleBackends

NextAssemble ==
    \/ RagSubmitAny
    \/ RagSearchOkAny
    \/ RagLookupOk

SpecAssemble == InitAssemble /\ [][NextAssemble]_vars

\* the grounded generation call of the RAG page is in flight
RagGenerating == page = "rag" /\ pc = "Generating"

\* positions of the hits that are the first of their identifier and whose
\* identifier is resolved
FirstHits(results, docs) ==
    {i \in 1..Len(results) :
        /\ results[i].document_id \in DOMAIN docs
        /\ \A j \in 1..(i - 1) :
            results[j].document_id # results[i].document_id}

\* the k-th smallest element of a set of numbers
NthOf(S, k) == CHOOSE i \in S : Cardinality({j \in S : j < i}) = k - 1

(***************************************************************************)
(* C5: relevant_docs has exactly one entry per distinct hit identifier     *)
(* that the lookup resolved, in the order of the identifiers' first        *)
(* appearance among the hits; each entry joins the resolved document with  *)
(* the chunk of that first hit, and no two entries are of one document.    *)
(***************************************************************************)
C5_DedupByFirstOccurrence ==
    RagGenerating =>
        LET first == FirstHits(search_results, original_docs)
        IN  /\ Len(relevant_docs) = Cardinality(first)
            /\ Len(relevant_docs)
               = Cardinality(UniqueDocumentIds(search_results)
                             \cap DOMAIN original_docs)
            /\ \A k \in 1..Len(relevant_docs) :
                LET hit == search_results[NthOf(first, k)]
                    doc == original_docs[hit.document_id]
                IN  /\ relevant_docs[k].chunked_content = hit.chunked_content
                    /\ relevant_docs[k].title = doc.title
                    /\ relevant_docs[k].content = doc.content
                    /\ relevant_docs[k].document_type = doc.document_type
                    /\ relevant_docs[k].department = doc.department
            /\ \A k, l \in 1..Len(relevant_docs) :
                k # l => relevant_docs[k].title # relevant_docs[l].title

\* document 2 first, document 1 hit twice, both resolved: two entries in
\* search order, the second with the chunk of the first hit on document 1
C5_Witness ==
    /\ RagGenerating
    /\ search_results = <<Hit("2", "b"), Hit("1", "a"), Hit("1", "c")>>
    /\ DOMAIN original_docs = {"1", "2"}
    /\ Len(relevant_docs) = 2
    /\ relevant_docs[1].title = Doc2.title
    /\ relevant_docs[2].chunked_content = "a"

(***************************************************************************)
(* Filter construction over every selection of two facets of three values  *)
(* each: one submission, up to the search call.                            *)
(***************************************************************************)
FilterBackend ==
    [departments |-> <<"hr", "it", "sales">>,
     document_types |-> <<"faq", "manual", "policy">>,
     documents |-> {Doc1, Doc2}, results |-> SessionResults]

InitFilter ==
    /\ EmptySession
    /\ NoRun
    /\ backend = FilterBackend

NextFilter == RagSubmitAny

SpecFilter == InitFilter /\ [][NextFilter]_vars

\* the search call of the RAG page is in flight
RagSearching == page = "rag" /\ pc = "Searching"

\* the predicate is the one a facet with these selected values contributes
IsFacetPredicate(pred, field, selected) ==
    IF Len(selected) = 1
    THEN pred = [op |-> "@eq", field |-> field, value |-> selected[1]]
    ELSE /\ pred.op = "@or"
         /\ Len(pred.children) = Len(selected)
         /\ \A i \in 1..Len(selected) :
                pred.children[i]
                = [op |-> "@eq", field |-> field, value |-> selected[i]]

(***************************************************************************)
(* C7: a facet without selection contributes nothing, one selected value   *)
(* gives a single @eq, k > 1 values give one @or of k @eq; no facet: no    *)
(* filter; one facet: its predicate itself; both: an @and of the two; the  *)
(* search call has a filter argument exactly when there is a filter.       *)
(***************************************************************************)
C7_FilterShape ==
    RagSearching =>
        LET d == selected_departments
            t == selected_document_types
            has_filter == "filter" \in DOMAIN search_args
        IN  /\ search_args.query = prompt
            /\ search_args.limit = SearchLimit
            /\ (d = <<>> /\ t = <<>>) => ~has_filter
            /\ (d # <<>> /\ t = <<>>) =>
                /\ has_filter
                /\ IsFacetPredicate(search_args.filter, "department", d)
            /\ (d = <<>> /\ t # <<>>) =>
                /\ has_filter
                /\ IsFacetPredicate(search_args.filter, "document_type", t)
            /\ (d # <<>> /\ t # <<>>) =>
                /\ has_filter
                /\ search_args.filter.op = "@and"
                /\ Len(search_args.filter.children) = 2
                /\ IsFacetPredicate(search_args.filter.children[1],
                                    "department", d)
                /\ IsFacetPredicate(search_args.filter.children[2],
                                    "document_type", t)

\* three departments and one document type selected
C7_Witness ==
    /\ RagSearching
    /\ Len(selected_departments) = 3
    /\ Len(selected_document_types) = 1
    /\ search_args.filter.op = "@and"
    /\ search_args.filter.children[1].op = "@or"
    /\ search_args.filter.children[2].op = "@eq"

(***************************************************************************)
(* C6: a hit whose identifier the lookup does not return is dropped        *)
(* without an error. After a search and a lookup that succeeded with some  *)
(* or all identifiers unresolved: no error is shown and no fallback is     *)
(* taken, the grounded generation call is issued, relevant_docs and the    *)
(* context hold nothing of the unresolved identifiers (relevant_docs is    *)
(* empty when none resolves), and when the grounded call returns the turn  *)
(* is stored with these relevant_docs.                                     *)
(***************************************************************************)
Unresolved ==
    UniqueDocumentIds(search_results)
    \ {d.document_id : d \in backend.documents}

Errors == {SearchError, GenerationError}

C6_UnresolvedHitsDropped ==
    (page = "rag" /\ Succeeded("lookup") /\ Unresolved # {}) =>
        /\ pc = "Generating" =>
            /\ notices \cap Errors = {}
            /\ CallsOf("complete") = {}
            /\ prompt_template[1] = GroundedInstruction
        /\ \A k \in 1..Len(relevant_docs) :
            \E d \in backend.documents :
                /\ d.document_id \notin Unresolved
                /\ relevant_docs[k].title = d.title
                /\ relevant_docs[k].content = d.content
        /\ UniqueDocumentIds(search_results) \subseteq Unresolved =>
            /\ relevant_docs = <<>>
            /\ context = <<ContextHeader>>
        /\ \A i \in 1..Len(search_results) :
            search_results[i].document_id \in Unresolved =>
                search_results[i].chunked_content \notin Range(context)
        /\ Cardinality({j \in 1..Len(context) : context[j] = BlockEnd})
           = Len(relevant_docs)
        /\ (pc = "Idle" /\ calls[Len(calls)].fn = "complete"
            /\ Cardinality(CallsOf("complete")) = 1
            /\ calls[Len(calls)].ok) =>
            /\ notices \cap Errors = {}
            /\ Last(rag_messages)
               = GroundedTurn(calls[Len(calls)].result, relevant_docs)

\* one hit unresolved, one resolved, and the grounded answer stored
C6_Witness ==
    /\ page = "rag"
    /\ pc = "Idle"
    /\ Succeeded("lookup")
    /\ Unresolved # {}
    /\ Len(relevant_docs) = 1
    /\ Succeeded("complete")
    /\ HasDocs(Last(rag_messages))
    /\ Last(rag_messages).relevant_docs = relevant_docs

(***************************************************************************)
(* C8: a clear leaves the store of its page without turns and without      *)
(* running-history text, whatever was appended before, so the text of an   *)
(* empty store is empty and the first prompt after a clear is made of the  *)
(* new turn alone.                                                         *)
(***************************************************************************)
C8_ClearResetsHistory ==
    /\ cleared.page = "simple" => (messages = <<>> /\ chat_history = <<>>)
    /\ cleared.page = "rag" =>
        (rag_messages = <<>> /\ rag_chat_history = <<>>)
    /\ messages = <<>> => chat_history = <<>>
    /\ rag_messages = <<>> => rag_chat_history = <<>>
    /\ (SimpleGenerating /\ Len(messages) = 1) =>
        full_prompt = <<UserTag, prompt, NL, AiTag>>
    /\ (page = "rag" /\ pc # "Idle" /\ Len(rag_messages) = 1) =>
        rag_chat_history = <<UserTag, prompt, NL>>

\* the plain store cleared when it held a failed submission and an answer
C8_Witness ==
    /\ cleared.page = "simple"
    /\ Len(cleared.turns) >= 3
    /\ \E i \in 1..(Len(cleared.turns) - 1) :
        cleared.turns[i].role = "user" /\ cleared.turns[i + 1].role = "user"
    /\ \E i \in 1..Len(cleared.turns) : IsAssistant(cleared.turns[i])
    /\ messages = <<>>
    /\ chat_history = <<>>

(***************************************************************************)
(* C9: a run always ends. Every backend call returns or raises (there is   *)
(* no cancellation: an interaction runs to completion or failure), which   *)
(* is the weak fairness of Return; then from every state of a submission   *)
(* the page comes back to Idle, where submissions and clears are taken.    *)
(***************************************************************************)
Return ==
    \/ \E r \in Responses : SimpleGenerateOk(r)
    \/ SimpleGenerateFail
    \/ RagReturn

LiveSpec == Init /\ [][Next]_vars /\ WF_vars(Return)

C9_RunsReturnToIdle == (pc # "Idle") ~> (pc = "Idle")

\* a run in which the facet listing, the lookup and the fallback generation
\* failed, back at Idle
C9_Witness ==
    /\ pc = "Idle"
    /\ page = "rag"
    /\ Failed("facets")
    /\ Failed("lookup")
    /\ Failed("complete")
    /\ GenerationError \in notices

(***************************************************************************)
(* Sessions on the RAG page only, with one grounded generation call kept   *)
(* in snap (its question, hits, resolved documents, prompt and the running *)
(* history at that time) to compare later calls of the session with. The   *)
(* call kept is one made with no earlier turn in the store, the state of a *)
(* new session.                                                            *)
(***************************************************************************)
TakeSnap ==
    /\ RagGenerating
    /\ ~snap.taken
    /\ Len(rag_messages) = 1
    /\ snap' = [taken |-> TRUE, prompt |-> prompt,
                search_results |-> search_results,
                original_docs |-> original_docs,
                prompt_template |-> prompt_template,
                history |-> rag_chat_history]
    /\ UNCHANGED <<session, backend, page, pc, locals, notices, calls,
                   cleared>>

\* the session data with tables that list no facet value: every search is
\* unfiltered
RagBackend ==
    [departments |-> <<>>, document_types |-> <<>>,
     documents |-> {Doc1, Doc2}, results |-> SessionResults]

InitRag ==
    /\ EmptySession
    /\ NoRun
    /\ backend = RagBackend

NextRag == RagNext \/ TakeSnap

SpecRag == InitRag /\ [][NextRag]_vars

\* the grounded call in flight has the inputs of the call kept in snap
SameInputsAsSnap ==
    /\ RagGenerating
    /\ snap.taken
    /\ snap.prompt = prompt
    /\ snap.search_results = search_results
    /\ snap.original_docs = original_docs

(***************************************************************************)
(* C10: the grounded prompt is the fixed instruction, the context text and *)
(* the raw question and nothing else; two grounded calls with the same     *)
(* question, hits and resolved documents get the same prompt whatever the  *)
(* earlier turns are; no prompt of the RAG page holds a line of the        *)
(* running history.                                                        *)
(***************************************************************************)
C10_NoHistoryInRagPrompts ==
    page = "rag" =>
        /\ RagGenerating =>
            /\ Range(prompt_template) \cap {UserTag, AiTag} = {}
            /\ Len(prompt_template) = Len(context) + 4
            /\ prompt_template[1] = GroundedInstruction
            /\ SubSeq(prompt_template, 3, Len(context) + 2) = context
            /\ prompt_template[Len(prompt_template)] = prompt
        /\ SameInputsAsSnap => prompt_template = snap.prompt_template
        /\ \A i \in CallsOf("complete") :
            Range(calls[i].arg) \cap {UserTag, AiTag} = {}

\* the same question, hits and documents as the kept call, after other
\* earlier turns
C10_Witness ==
    /\ SameInputsAsSnap
    /\ snap.history # rag_chat_history
    /\ Len(rag_messages) >= 3
    /\ prompt_template = snap.prompt_template

(***************************************************************************)
(* C11: the context text is its header and one block per entry of          *)
(* relevant_docs, in the same order; a block carries the title, type,      *)
(* department and the chunk of the hit, never the full content, which the  *)
(* entry stored in the turn keeps; three hits on two resolved documents    *)
(* give two blocks.                                                        *)
(***************************************************************************)
BlockLen == Len(ContextBlock(RelevantDoc(Doc1, Hit("1", "a"))))

\* the k-th block of a context text
BlockOf(text, k) ==
    SubSeq(text, 2 + BlockLen * (k - 1), 1 + BlockLen * k)

C11_ContextBlocks ==
    (page = "rag" /\ Succeeded("lookup")) =>
        /\ Len(context) = 1 + BlockLen * Len(relevant_docs)
        /\ context[1] = ContextHeader
        /\ \A k \in 1..Len(relevant_docs) :
            LET block == BlockOf(context, k)
                doc == relevant_docs[k]
            IN  /\ block = <<TitleTag, doc.title, TypeTag, doc.document_type,
                             DeptTag, doc.department, ChunkTag,
                             doc.chunked_content, BlockEnd>>
                /\ \E i \in 1..Len(search_results) :
                    search_results[i].chunked_content = block[8]
                /\ \E d \in backend.documents :
                    d.title = doc.title /\ d.content = doc.content
        /\ \A d \in backend.documents : d.content \notin Range(context)
        /\ (Len(search_results) = 3
            /\ Cardinality(UniqueDocumentIds(search_results)
                           \cap {d.document_id : d \in backend.documents})
               = 2) =>
            Cardinality({j \in 1..Len(context) : context[j] = BlockEnd}) = 2
        /\ (pc = "Idle" /\ calls[Len(calls)].fn = "complete"
            /\ Cardinality(CallsOf("complete")) = 1
            /\ calls[Len(calls)].ok) =>
            /\ HasDocs(Last(rag_messages))
            /\ Last(rag_messages).relevant_docs = relevant_docs

\* three hits on two documents, the grounded answer stored: two blocks with
\* the chunks, two stored entries with the full contents
C11_Witness ==
    /\ page = "rag"
    /\ pc = "Idle"
    /\ Len(search_results) = 3
    /\ Succeeded("complete")
    /\ HasDocs(Last(rag_messages))
    /\ Len(Last(rag_messages).relevant_docs) = 2
    /\ Last(rag_messages).relevant_docs[1].content = Doc1.content
    /\ BlockOf(context, 1)[8] = "a"
    /\ BlockOf(context, 2)[8] = "b"
    /\ Len(context) = 1 + 2 * BlockLen

(***************************************************************************)
(* C12: the two stores are independent: a step of a run of one page        *)
(* (submission, return or failure of a call, clear) leaves the turns and   *)
(* the running-history text of the other page as they are.                 *)
(***************************************************************************)
C12_StoresIndependent ==
    [][/\ page' = "simple" =>
            (rag_messages' = rag_messages
             /\ rag_chat_history' = rag_chat_history)
       /\ page' = "rag" =>
            (messages' = messages /\ chat_history' = chat_history)]_vars

\* a failed RAG submission made while the plain store holds a submission
\* and its answer
C12_Witness ==
    /\ page = "rag"
    /\ pc = "Idle"
    /\ Failed("complete")
    /\ Len(rag_messages) = 1
    /\ Len(messages) = 2
    /\ IsAssistant(messages[2])
    /\ chat_history = UserLine(messages[1].content)
                      \o AiLine(messages[2].content)

(***************************************************************************)
(* C13: a failed facet listing is not fatal: both option lists are empty,  *)
(* the warning is shown, nothing is selected, the search of the submission *)
(* has no filter argument, no error is shown for it, and the submission    *)
(* runs through search, lookup and generation like any other.              *)
(***************************************************************************)
C13_FacetFailureDegrades ==
    (page = "rag" /\ Failed("facets")) =>
        /\ department_list = <<>>
        /\ document_type_list = <<>>
        /\ FacetWarning \in notices
        /\ FilterInfo \notin notices
        /\ selected_departments = <<>>
        /\ selected_document_types = <<>>
        /\ "filter" \notin DOMAIN search_args
        /\ \A i \in CallsOf("search") : "filter" \notin DOMAIN calls[i].arg
        /\ prompt # NoText =>
            /\ search_args.query = prompt
            /\ \E i \in 1..Len(rag_messages) :
                rag_messages[i] = UserTurn(prompt)
        /\ (\A i \in 2..Len(calls) : calls[i].ok) =>
            notices \cap Errors = {}
        /\ (pc = "Idle" /\ prompt # NoText
            /\ \A i \in 2..Len(calls) : calls[i].ok) =>
            /\ Len(calls) = 4
            /\ Last(rag_messages)
               = GroundedTurn(calls[4].result, relevant_docs)

\* the facet listing failed and the grounded answer of the unfiltered
\* search is stored
C13_Witness ==
    /\ page = "rag"
    /\ pc = "Idle"
    /\ Failed("facets")
    /\ Succeeded("search")
    /\ Succeeded("complete")
    /\ FacetWarning \in notices
    /\ HasDocs(Last(rag_messages))
    /\ Len(Last(rag_messages).relevant_docs) = 2

(***************************************************************************)
(* C14: each store is append-only between clears: in every step that is    *)
(* not a clear of the page, the turns before the step are a prefix of the  *)
(* turns after it.                                                         *)
(***************************************************************************)
IsPrefix(s, t) == Len(s) <= Len(t) /\ SubSeq(t, 1, Len(s)) = s

C14_AppendOnlyBetweenClears ==
    [][/\ cleared'.page # "simple" => IsPrefix(messages, messages')
       /\ cleared'.page # "rag" => IsPrefix(rag_messages, rag_messages')]_vars

\* stores grown by submissions, one of them failed, with no clear in the
\* last run
C14_Witness ==
    /\ pc = "Idle"
    /\ cleared = NoClear
    /\ Len(rag_messages) = 2
    /\ Len(messages) = 2
    /\ Failed("complete")
    /\ ~IsAssistant(messages[2])

(***************************************************************************)
(* C15: whenever a page is at Idle, its running-history text is the        *)
(* rendering of its stored turns in order, "User: " content newline for a  *)
(* user turn and "AI: " content newline for an assistant turn.             *)
(***************************************************************************)
RECURSIVE RenderTurns(_)
RenderTurns(turns) ==
    IF turns = <<>> THEN <<>>
    ELSE <<(IF Head(turns).role = "user" THEN "User: " ELSE "AI: "),
           Head(turns).content, "\n">>
         \o RenderTurns(Tail(turns))

C15_HistoryTextMatchesTurns ==
    pc = "Idle" =>
        /\ chat_history = RenderTurns(messages)
        /\ rag_chat_history = RenderTurns(rag_messages)

\* a RAG store with an unanswered turn, a turn answered by the fallback,
\* and its text
C15_Witness ==
    /\ pc = "Idle"
    /\ page = "rag"
    /\ Len(rag_messages) = 3
    /\ ~IsAssistant(rag_messages[2])
    /\ IsAssistant(rag_messages[3])
    /\ ~HasDocs(rag_messages[3])
    /\ Len(rag_chat_history) = 9
    /\ rag_chat_history[7] = AiTag

(***************************************************************************)
(* C16: a submission appends its user turn before the search, lookup or    *)
(* generation call and at most one assistant turn after; so a store that   *)
(* is not empty starts with a user turn, every assistant turn comes right  *)
(* after a user turn, and the user turn of a submission whose generation   *)
(* failed stays last in the store, without a reply.                        *)
(***************************************************************************)
WellFormedStore(turns) ==
    /\ turns # <<>> => turns[1].role = "user"
    /\ \A i \in 1..Len(turns) :
        /\ turns[i].role \in {"user", "assistant"}
        /\ IsAssistant(turns[i]) => (i > 1 /\ turns[i - 1].role = "user")

\* the store of the page of the current run
PageStore == IF page = "simple" THEN messages ELSE rag_messages

====
